---- MODULE Spec2Model ----
(***************************************************************************)
(* Batch processing pipeline of the scan/PDF translation app (src/App.tsx). *)
(*                                                                         *)
(* `tasks` is the React state: the task list with every setTasks updater   *)
(* applied, in the order the updaters were issued.  `rendered` is the      *)
(* part of `tasks` that the last render saw and that the Process Queue     *)
(* Effect and the click handlers read from their closure: ids and status.  *)
(* The effect of a render runs before the next render and before the next  *)
(* user event; between a write of a processQueue continuation and its      *)
(* render, and between that render and its effect, other continuations     *)
(* may run.                                                                *)
(* Each processQueue invocation is a record of `runs`; it advances one     *)
(* setTasks write at a time and is suspended at its awaits (file read,     *)
(* analysis call, per-block timer).  `progressLog` records, for each task  *)
(* of the list, the progress values it has taken so far.                   *)
(* Task ids come from Math.random: Spec draws them distinct, RandomIdSpec  *)
(* draws each from a pool, whatever ids are in use.  ViewSpec is the       *)
(* SplitView component (src/unnamed/part_000) showing a completed task.    *)
(* LangSpec adds the target language selector.  The toast list is kept in  *)
(* NotifySpec only: the other specifications leave `toasts` empty, as no   *)
(* code reads it but the toast display.                                    *)
(***************************************************************************)
EXTENDS Integers, Sequences, FiniteSets, TLC

\* ---------------------------------------------------------------- bounds
MaxTasks == 2
MaxBlocks == 3

\* ------------------------------------------------------------- constants
Null == 0

FloorProgress == 5
ReadProgress == 20
StreamBase == 30
StreamSpan == 60
DoneProgress == 100

\* SplitView's zoom, in tenths
InitialZoom == 10
MinZoom == 5
MaxZoom == 30

WaitingStatus == <<"Waiting to start...">>
OcrStatus == <<"Performing OCR Analysis...">>
ExtractStatus == <<"Extracting text layout...">>
TranslatingStatus == <<"Translating content (Page 1)...">>
CompletedStatus == <<"Translation Completed">>
ErrorStatus == <<"Error encountered">>

NoMessage == ""
ReadFailedMessage == "Failed to read file"
InvalidResponseMessage == "Invalid response format from Analysis Engine"
ApiKeyMessage == "API key not valid"
NetworkMessage == "Network error"

\* SupportedLocale values offered as target languages, and their labels
ZH_CN == "zh-CN"
EN == "en"
TargetLangOptions ==
  {[value |-> ZH_CN, label |-> "Chinese (Simplified)"],
   [value |-> EN, label |-> "English"]}

\* what fileToBase64 can reject with: its own Error, or the reader's error
\* event, which carries no message
ReadErrors == {ReadFailedMessage, NoMessage}
\* what analyzeAndTranslateImage can reject with
AnalyzeErrors == {ApiKeyMessage, NetworkMessage}

\* error.message.includes("API key")
IncludesApiKey(m) == m \in {ApiKeyMessage}

\* the blocks the analysis engine can return
TextBlock ==
  [text |-> "a", translatedText |-> "A", box |-> <<10, 10, 20, 60>>,
   isBold |-> FALSE, type |-> "text"]
HeadingBlock ==
  [text |-> "h", translatedText |-> "H", box |-> <<0, 0, 50, 100>>,
   isBold |-> TRUE, type |-> "heading"]
BlockData == {TextBlock, HeadingBlock}

\* the block lists the engine returns here: 0..MaxBlocks blocks, text and
\* heading blocks alternating
AdapterBlocks ==
  {[k \in 1..n |-> IF k % 2 = 1 THEN TextBlock ELSE HeadingBlock] :
     n \in 0..MaxBlocks}

VARIABLES tasks, rendered, needsRender, effectPending, activeTaskId, nextId,
          runs, progressLog, zoom, defaultTargetLang, toasts

vars == <<tasks, rendered, needsRender, effectPending, activeTaskId, nextId,
          runs, progressLog, zoom, defaultTargetLang, toasts>>

\* ------------------------------------------------------------ task store
Ids(ts) == {ts[k].id : k \in 1..Len(ts)}

HasTask(ts, id) == \E k \in 1..Len(ts) : ts[k].id = id

TaskOf(ts, id) == ts[CHOOSE k \in 1..Len(ts) : ts[k].id = id]

\* the task created with a warning in it
NewTaskWithWarning(id) ==
  [id |-> id, status |-> "pending", detailedStatus |-> WaitingStatus,
   progress |-> 0, warnings |-> <<NoMessage>>, translatedBlocks |-> <<>>,
   targetLanguage |-> defaultTargetLang]

\* handleFilesSelected: the task created for one file
NewTask(id) ==
  [id |-> id, status |-> "pending", detailedStatus |-> WaitingStatus,
   progress |-> 0, warnings |-> <<>>, translatedBlocks |-> <<>>,
   targetLanguage |-> defaultTargetLang]

\* the new tasks put in front of the list
AddTasksInFront(prev, newTasks) == newTasks \o prev

\* setTasks(prev => [...prev, ...newTasks])
AddTasks(prev, newTasks) == prev \o newTasks

\* === written for !==
RemoveTaskKeepsOnly(ts, id) == SelectSeq(ts, LAMBDA t : t.id = id)

\* ts.filter(t => t.id !== id)
RemoveTask(ts, id) == SelectSeq(ts, LAMBDA t : t.id # id)

\* `every` written for `some`
ProcessingEvery(ts) ==
  Len(ts) > 0 /\ \A k \in 1..Len(ts) : ts[k].status = "processing"

\* tasks.some(t => t.status === 'processing')
Processing(ts) == \E k \in 1..Len(ts) : ts[k].status = "processing"

HasPending(ts) == \E k \in 1..Len(ts) : ts[k].status = "pending"

\* the last pending task taken for the first
FindPendingLast(ts) ==
  ts[CHOOSE k \in 1..Len(ts) :
       /\ ts[k].status = "pending"
       /\ \A j \in (k + 1)..Len(ts) : ts[j].status # "pending"]

\* tasks.find(t => t.status === 'pending')
FindPending(ts) ==
  ts[CHOOSE k \in 1..Len(ts) :
       /\ ts[k].status = "pending"
       /\ \A j \in 1..(k - 1) : ts[j].status # "pending"]

\* ------------------------------------------------- the pipeline's writes
\* the first write without its status: 'processing'
StartPatchNoStatus(t) ==
  [t EXCEPT !.detailedStatus = OcrStatus, !.progress = FloorProgress]

StartPatch(t) ==
  [t EXCEPT !.status = "processing", !.detailedStatus = OcrStatus,
            !.progress = FloorProgress]

\* progress 2 written for 20
ReadDonePatchTypo(t) ==
  [t EXCEPT !.progress = 2, !.detailedStatus = ExtractStatus]

ReadDonePatch(t) ==
  [t EXCEPT !.progress = ReadProgress, !.detailedStatus = ExtractStatus]

\* the write also moving the progress to the start of the streaming range
TranslatingPatchWithProgress(t) ==
  [t EXCEPT !.detailedStatus = TranslatingStatus, !.progress = StreamBase]

TranslatingPatch(t) == [t EXCEPT !.detailedStatus = TranslatingStatus]

\* i written for i + 1
CurrentProgressOffByOne(i, totalBlocks) ==
  StreamBase + ((i * StreamSpan) \div totalBlocks)

\* 30 + Math.floor(((i + 1) / totalBlocks) * 60), i counted from 0
CurrentProgress(i, totalBlocks) ==
  StreamBase + (((i + 1) * StreamSpan) \div totalBlocks)

\* the status counting the blocks from 0
BlockStatusFromZero(i, totalBlocks) ==
  <<"Translating block", i, totalBlocks, CurrentProgress(i, totalBlocks)>>

\* `Translating block ${i + 1}/${totalBlocks} (${currentProgress}%)`
BlockStatus(i, totalBlocks) ==
  <<"Translating block", i + 1, totalBlocks, CurrentProgress(i, totalBlocks)>>

NewBlock(blockData, i) ==
  [id |-> i, pageIndex |-> 0, text |-> blockData.text,
   translatedText |-> blockData.translatedText, box |-> blockData.box,
   isBold |-> blockData.isBold, type |-> blockData.type]

\* the new block put in front of the list
AppendPatchInFront(t, blocks, i) ==
  [t EXCEPT !.translatedBlocks = <<NewBlock(blocks[i + 1], i)>> \o @,
            !.progress = CurrentProgress(i, Len(blocks)),
            !.detailedStatus = BlockStatus(i, Len(blocks))]

AppendPatch(t, blocks, i) ==
  [t EXCEPT !.translatedBlocks = Append(@, NewBlock(blocks[i + 1], i)),
            !.progress = CurrentProgress(i, Len(blocks)),
            !.detailedStatus = BlockStatus(i, Len(blocks))]

\* the completion write without its status: 'completed'
CompletePatchNoStatus(t) ==
  [t EXCEPT !.detailedStatus = CompletedStatus, !.progress = DoneProgress]

CompletePatch(t) ==
  [t EXCEPT !.status = "completed", !.detailedStatus = CompletedStatus,
            !.progress = DoneProgress]

\* the catch block recording no message text
ErrorMessageBlank(m) == NoMessage

\* the catch block's message
ErrorMessage(m) ==
  IF m # NoMessage /\ IncludesApiKey(m) THEN "Invalid API Key"
  ELSE IF m # NoMessage THEN m
  ELSE "Analysis failed"

\* the catch block without its status: 'error'
ErrorPatchNoStatus(t, m) ==
  [t EXCEPT !.detailedStatus = ErrorStatus, !.warnings = <<ErrorMessage(m)>>]

ErrorPatch(t, m) ==
  [t EXCEPT !.status = "error", !.detailedStatus = ErrorStatus,
            !.warnings = <<ErrorMessage(m)>>]

\* the setTasks updaters: prev.map(t => t.id === id ? patch(t) : t)
SetStarted(ts, id) ==
  [k \in 1..Len(ts) |-> IF ts[k].id = id THEN StartPatch(ts[k]) ELSE ts[k]]

\* the read-done write without its id test
SetReadDoneEverywhere(ts, id) ==
  [k \in 1..Len(ts) |-> ReadDonePatch(ts[k])]

SetReadDone(ts, id) ==
  [k \in 1..Len(ts) |-> IF ts[k].id = id THEN ReadDonePatch(ts[k]) ELSE ts[k]]

SetTranslating(ts, id) ==
  [k \in 1..Len(ts) |->
     IF ts[k].id = id THEN TranslatingPatch(ts[k]) ELSE ts[k]]

\* the block updater without its id test
SetBlockAppendedEverywhere(ts, id, blocks, i) ==
  [k \in 1..Len(ts) |-> AppendPatch(ts[k], blocks, i)]

SetBlockAppended(ts, id, blocks, i) ==
  [k \in 1..Len(ts) |->
     IF ts[k].id # id THEN ts[k] ELSE AppendPatch(ts[k], blocks, i)]

\* the completion write without its id test
SetCompletedEverywhere(ts, id) ==
  [k \in 1..Len(ts) |-> CompletePatch(ts[k])]

SetCompleted(ts, id) ==
  [k \in 1..Len(ts) |-> IF ts[k].id = id THEN CompletePatch(ts[k]) ELSE ts[k]]

SetFailed(ts, id, m) ==
  [k \in 1..Len(ts) |-> IF ts[k].id = id THEN ErrorPatch(ts[k], m) ELSE ts[k]]

\* addToast: setToasts(prev => [...prev, { id, message, type }])
AddToast(ts, message, type) == Append(ts, [message |-> message, type |-> type])

\* ------------------------------------------------------------------ runs
\* TARGET_LANG_OPTIONS.find(o => o.value === code)?.label || 'English'
LangLabel(code) ==
  IF \E o \in TargetLangOptions : o.value = code
  THEN (CHOOSE o \in TargetLangOptions : o.value = code).label
  ELSE "English"

\* the run reading the default language instead of its task's
NewRunDefaultLang(pendingTask) ==
  [id |-> pendingTask.id, targetLanguage |-> defaultTargetLang,
   label |-> NoMessage, pc |-> "read", blocks |-> <<>>, i |-> 0]

\* a processQueue invocation: pendingTask is the task as the render saw
\* it; label is the language the analysis call was given, once made
NewRun(pendingTask) ==
  [id |-> pendingTask.id, targetLanguage |-> pendingTask.targetLanguage,
   label |-> NoMessage, pc |-> "read", blocks |-> <<>>, i |-> 0]

DropRun(rs, r) ==
  [k \in 1..(Len(rs) - 1) |-> IF k < r THEN rs[k] ELSE rs[k + 1]]

\* a run between two writes of one synchronous continuation: nothing else
\* runs until it has issued the second
InSync == \E r \in 1..Len(runs) : runs[r].pc = "complete"

\* the progress values each task of ts has taken, given the log so far
Logged(log, ts) ==
  [id \in Ids(ts) |->
     IF id \notin DOMAIN log THEN <<TaskOf(ts, id).progress>>
     ELSE IF TaskOf(ts, id).progress = log[id][Len(log[id])] THEN log[id]
     ELSE Append(log[id], TaskOf(ts, id).progress)]

Init ==
  /\ tasks = <<>>
  /\ rendered = <<>>
  /\ needsRender = FALSE
  /\ effectPending = TRUE
  /\ activeTaskId = Null
  /\ nextId = 1
  /\ runs = <<>>
  /\ progressLog = <<>>
  /\ zoom = InitialZoom
  /\ defaultTargetLang = ZH_CN
  /\ toasts = <<>>

\* ------------------------------------------------ render and the effect
\* what the closures of one render read of a task
Snapshot(ts) ==
  [k \in 1..Len(ts) |->
     [id |-> ts[k].id, status |-> ts[k].status,
      targetLanguage |-> ts[k].targetLanguage]]

\* the render that follows setTasks calls made outside a user event (in a
\* continuation of processQueue, or in the effect); the effect of the render
\* before it has been flushed
Render ==
  /\ ~InSync
  /\ needsRender
  /\ ~effectPending
  /\ rendered' = Snapshot(tasks)
  /\ needsRender' = FALSE
  /\ effectPending' = TRUE
  /\ UNCHANGED <<tasks, activeTaskId, nextId, runs, progressLog, zoom,
                 defaultTargetLang, toasts>>

\* --------------------------------------------------------- user handlers
\* A user event is handled after the effect of the last render has been
\* flushed, and its setTasks call is rendered as the event ends.
HandleFilesSelected(n) ==
  /\ ~InSync
  /\ ~effectPending
  /\ n >= 1
  /\ nextId + n - 1 <= MaxTasks
  /\ LET newTasks == [j \in 1..n |-> NewTask(nextId + j - 1)]
     IN /\ tasks' = AddTasks(tasks, newTasks)
        /\ activeTaskId' = IF activeTaskId = Null THEN newTasks[1].id
                           ELSE activeTaskId
  /\ nextId' = nextId + n
  /\ rendered' = Snapshot(tasks')
  /\ needsRender' = FALSE
  /\ effectPending' = TRUE
  /\ progressLog' = Logged(progressLog, tasks')
  /\ UNCHANGED <<runs, zoom, defaultTargetLang>>

SetActiveTaskId(id) ==
  /\ ~InSync
  /\ ~effectPending
  /\ HasTask(rendered, id)
  /\ activeTaskId # id
  /\ activeTaskId' = id
  /\ UNCHANGED <<tasks, rendered, needsRender, effectPending, nextId, runs,
                 progressLog, zoom, defaultTargetLang, toasts>>

RemoveFile(id) ==
  /\ ~InSync
  /\ ~effectPending
  /\ HasTask(rendered, id)
  /\ activeTaskId = id
  /\ tasks' = RemoveTask(tasks, id)
  /\ rendered' = Snapshot(tasks')
  /\ needsRender' = FALSE
  /\ effectPending' = TRUE
  /\ progressLog' = Logged(progressLog, tasks')
  /\ UNCHANGED <<activeTaskId, nextId, runs, zoom, defaultTargetLang>>

\* the effect finds nothing to start
EffectIdle ==
  /\ ~InSync
  /\ effectPending
  /\ Processing(rendered) \/ ~HasPending(rendered)
  /\ effectPending' = FALSE
  /\ UNCHANGED <<tasks, rendered, needsRender, activeTaskId, nextId, runs,
                 progressLog, zoom, defaultTargetLang, toasts>>

\* the effect calls processQueue, which runs up to its first await
EffectStart ==
  /\ ~InSync
  /\ effectPending
  /\ ~Processing(rendered)
  /\ HasPending(rendered)
  /\ LET pendingTask == FindPending(rendered)
     IN /\ tasks' = SetStarted(tasks, pendingTask.id)
        /\ runs' = Append(runs, NewRun(pendingTask))
  /\ effectPending' = FALSE
  /\ needsRender' = TRUE
  /\ progressLog' = Logged(progressLog, tasks')
  /\ UNCHANGED <<rendered, activeTaskId, nextId, zoom, defaultTargetLang,
                 toasts>>

\* ------------------------------------------- processQueue's continuations
Fail(r, m) ==
  /\ tasks' = SetFailed(tasks, runs[r].id, m)
  /\ runs' = DropRun(runs, r)
  /\ needsRender' = TRUE
  /\ progressLog' = Logged(progressLog, tasks')
  /\ UNCHANGED <<rendered, effectPending, activeTaskId, nextId, zoom,
                 defaultTargetLang>>

ReadResolve(r) ==
  /\ ~InSync
  /\ runs[r].pc = "read"
  /\ tasks' = SetReadDone(tasks, runs[r].id)
  /\ runs' = [runs EXCEPT ![r].pc = "analyze",
                         ![r].label = LangLabel(runs[r].targetLanguage)]
  /\ needsRender' = TRUE
  /\ progressLog' = Logged(progressLog, tasks')
  /\ UNCHANGED <<rendered, effectPending, activeTaskId, nextId, zoom,
                 defaultTargetLang, toasts>>

ReadReject(r, m) ==
  /\ ~InSync
  /\ runs[r].pc = "read"
  /\ Fail(r, m)

AnalyzeResolve(r, blocks) ==
  /\ ~InSync
  /\ runs[r].pc = "analyze"
  /\ tasks' = SetTranslating(tasks, runs[r].id)
  /\ runs' = [runs EXCEPT ![r].blocks = blocks,
                         ![r].pc = IF Len(blocks) > 0 THEN "stream"
                                   ELSE "complete"]
  /\ needsRender' = TRUE
  /\ progressLog' = Logged(progressLog, tasks')
  /\ UNCHANGED <<rendered, effectPending, activeTaskId, nextId, zoom,
                 defaultTargetLang, toasts>>

\* the call resolves to nothing, or to a result without blocks
AnalyzeInvalid(r) ==
  /\ ~InSync
  /\ runs[r].pc = "analyze"
  /\ Fail(r, InvalidResponseMessage)

AnalyzeReject(r, m) ==
  /\ ~InSync
  /\ runs[r].pc = "analyze"
  /\ Fail(r, m)

StreamBlock(r) ==
  /\ ~InSync
  /\ runs[r].pc = "stream"
  /\ tasks' = SetBlockAppended(tasks, runs[r].id, runs[r].blocks, runs[r].i)
  /\ runs' = [runs EXCEPT ![r].i = @ + 1,
                         ![r].pc = IF runs[r].i + 1 < Len(runs[r].blocks)
                                   THEN "stream" ELSE "complete"]
  /\ needsRender' = TRUE
  /\ progressLog' = Logged(progressLog, tasks')
  /\ UNCHANGED <<rendered, effectPending, activeTaskId, nextId, zoom,
                 defaultTargetLang, toasts>>

Complete(r) ==
  /\ runs[r].pc = "complete"
  /\ tasks' = SetCompleted(tasks, runs[r].id)
  /\ runs' = DropRun(runs, r)
  /\ needsRender' = TRUE
  /\ progressLog' = Logged(progressLog, tasks')
  /\ UNCHANGED <<rendered, effectPending, activeTaskId, nextId, zoom,
                 defaultTargetLang>>

Next ==
  \/ \E n \in 1..MaxTasks : HandleFilesSelected(n) /\ UNCHANGED toasts
  \/ \E id \in 1..MaxTasks : SetActiveTaskId(id)
  \/ \E id \in 1..MaxTasks : RemoveFile(id) /\ UNCHANGED toasts
  \/ Render
  \/ EffectIdle
  \/ EffectStart
  \/ \E r \in 1..Len(runs) : ReadResolve(r)
  \/ \E r \in 1..Len(runs) :
        \E m \in ReadErrors : ReadReject(r, m) /\ UNCHANGED toasts
  \/ \E r \in 1..Len(runs) : \E blocks \in AdapterBlocks :
        AnalyzeResolve(r, blocks)
  \/ \E r \in 1..Len(runs) : AnalyzeInvalid(r) /\ UNCHANGED toasts
  \/ \E r \in 1..Len(runs) :
        \E m \in AnalyzeErrors : AnalyzeReject(r, m) /\ UNCHANGED toasts
  \/ \E r \in 1..Len(runs) : StreamBlock(r)
  \/ \E r \in 1..Len(runs) : Complete(r) /\ UNCHANGED toasts

Spec == Init /\ [][Next]_vars

\* a scheduled render is carried out, the effect of a render is flushed, and
\* a synchronous continuation runs to its end
DriverFairSpec ==
  /\ Spec
  /\ WF_vars(Render)
  /\ WF_vars(EffectIdle)
  /\ WF_vars(EffectStart)
  /\ WF_vars(\E r \in 1..Len(runs) : Complete(r) /\ UNCHANGED toasts)

\* any continuation of run r: its awaited read, call or timer has settled
RunWrite(r) ==
  \/ ReadResolve(r)
  \/ \E m \in ReadErrors : ReadReject(r, m)
  \/ \E blocks \in AdapterBlocks : AnalyzeResolve(r, blocks)
  \/ AnalyzeInvalid(r)
  \/ \E m \in AnalyzeErrors : AnalyzeReject(r, m)
  \/ StreamBlock(r)
  \/ Complete(r)

\* in addition, every file read and every analysis call settles and every
\* timer fires
PipelineFairSpec ==
  /\ DriverFairSpec
  /\ WF_vars(\E r \in 1..Len(runs) : RunWrite(r) /\ UNCHANGED toasts)

\* ---------------------------------------------------------- notifications
\* Next, LangNext and RandomIdNext leave the toast list out: there `toasts`
\* stays empty.  NotifyNext is the same program with the addToast call of
\* each handler and continuation, and with toasts being taken off again.
\* A toast names its file by the task's id.
FilesAddedToast(n) ==
  toasts' = AddToast(toasts, <<"Added", n, "file(s) to queue">>, "info")

RemovedToast == toasts' = AddToast(toasts, <<"Removed file">>, "info")

ProcessedToast(r) ==
  toasts' =
    AddToast(toasts, <<"Processed", runs[r].id, "successfully">>, "success")

FailedToast(r, m) ==
  toasts' =
    AddToast(toasts, <<"Failed to process", runs[r].id, ErrorMessage(m)>>,
             "error")

\* the toast's 5000 ms timer, or its close button: prev.filter by id
RemoveToast(k) ==
  /\ ~InSync
  /\ k \in 1..Len(toasts)
  /\ toasts' = [j \in 1..(Len(toasts) - 1) |->
                 IF j < k THEN toasts[j] ELSE toasts[j + 1]]
  /\ UNCHANGED <<tasks, rendered, needsRender, effectPending, activeTaskId,
                 nextId, runs, progressLog, zoom, defaultTargetLang>>

NotifyNext ==
  \/ \E n \in 1..MaxTasks : HandleFilesSelected(n) /\ FilesAddedToast(n)
  \/ \E id \in 1..MaxTasks : SetActiveTaskId(id)
  \/ \E id \in 1..MaxTasks : RemoveFile(id) /\ RemovedToast
  \/ Render
  \/ EffectIdle
  \/ EffectStart
  \/ \E r \in 1..Len(runs) : ReadResolve(r)
  \/ \E r \in 1..Len(runs) :
        \E m \in ReadErrors : ReadReject(r, m) /\ FailedToast(r, m)
  \/ \E r \in 1..Len(runs) : \E blocks \in AdapterBlocks :
        AnalyzeResolve(r, blocks)
  \/ \E r \in 1..Len(runs) :
        AnalyzeInvalid(r) /\ FailedToast(r, InvalidResponseMessage)
  \/ \E r \in 1..Len(runs) :
        \E m \in AnalyzeErrors : AnalyzeReject(r, m) /\ FailedToast(r, m)
  \/ \E r \in 1..Len(runs) : StreamBlock(r)
  \/ \E r \in 1..Len(runs) : Complete(r) /\ ProcessedToast(r)
  \/ \E k \in 1..Len(toasts) : RemoveToast(k)

NotifySpec == Init /\ [][NotifyNext]_vars

\* ------------------------------------------------- ids from Math.random
\* The same program with the ids as Math.random gives them: each new task
\* gets any value of the pool, whatever ids are in use.  nextId counts the
\* files submitted.
IdPool == 1..MaxTasks

IdDraws == UNION {[1..n -> IdPool] : n \in 1..MaxTasks}

HandleFilesSelectedRandom(ids) ==
  /\ ~InSync
  /\ ~effectPending
  /\ nextId + Len(ids) - 1 <= MaxTasks
  /\ LET newTasks == [j \in 1..Len(ids) |-> NewTask(ids[j])]
     IN /\ tasks' = AddTasks(tasks, newTasks)
        /\ activeTaskId' = IF activeTaskId = Null THEN newTasks[1].id
                           ELSE activeTaskId
  /\ nextId' = nextId + Len(ids)
  /\ rendered' = Snapshot(tasks')
  /\ needsRender' = FALSE
  /\ effectPending' = TRUE
  /\ progressLog' = Logged(progressLog, tasks')
  /\ UNCHANGED <<runs, zoom, defaultTargetLang>>

\* --------------------------------------------- the target language selector
\* the selector's onChange; the list is not written, so the effect does
\* not run again
SetDefaultTargetLang(lang) ==
  /\ ~InSync
  /\ ~effectPending
  /\ lang # defaultTargetLang
  /\ defaultTargetLang' = lang
  /\ UNCHANGED <<tasks, rendered, needsRender, effectPending, activeTaskId,
                 nextId, runs, progressLog, zoom, toasts>>

\* the program with the selector in use; the engine returns no block or
\* one here
LangAdapterBlocks == {blocks \in AdapterBlocks : Len(blocks) <= 1}

LangNext ==
  \/ \E o \in TargetLangOptions : SetDefaultTargetLang(o.value)
  \/ \E n \in 1..MaxTasks : HandleFilesSelected(n) /\ UNCHANGED toasts
  \/ \E id \in 1..MaxTasks : SetActiveTaskId(id)
  \/ \E id \in 1..MaxTasks : RemoveFile(id) /\ UNCHANGED toasts
  \/ Render
  \/ EffectIdle
  \/ EffectStart
  \/ \E r \in 1..Len(runs) : ReadResolve(r)
  \/ \E r \in 1..Len(runs) :
        \E m \in ReadErrors : ReadReject(r, m) /\ UNCHANGED toasts
  \/ \E r \in 1..Len(runs) : \E blocks \in LangAdapterBlocks :
        AnalyzeResolve(r, blocks)
  \/ \E r \in 1..Len(runs) : AnalyzeInvalid(r) /\ UNCHANGED toasts
  \/ \E r \in 1..Len(runs) :
        \E m \in AnalyzeErrors : AnalyzeReject(r, m) /\ UNCHANGED toasts
  \/ \E r \in 1..Len(runs) : StreamBlock(r)
  \/ \E r \in 1..Len(runs) : Complete(r) /\ UNCHANGED toasts

LangSpec == Init /\ [][LangNext]_vars

RandomIdNext ==
  \/ \E ids \in IdDraws : HandleFilesSelectedRandom(ids) /\ UNCHANGED toasts
  \/ \E id \in IdPool : SetActiveTaskId(id)
  \/ \E id \in IdPool : RemoveFile(id) /\ UNCHANGED toasts
  \/ Render
  \/ EffectIdle
  \/ EffectStart
  \/ \E r \in 1..Len(runs) : ReadResolve(r)
  \/ \E r \in 1..Len(runs) :
        \E m \in ReadErrors : ReadReject(r, m) /\ UNCHANGED toasts
  \/ \E r \in 1..Len(runs) : \E blocks \in AdapterBlocks :
        AnalyzeResolve(r, blocks)
  \/ \E r \in 1..Len(runs) : AnalyzeInvalid(r) /\ UNCHANGED toasts
  \/ \E r \in 1..Len(runs) :
        \E m \in AnalyzeErrors : AnalyzeReject(r, m) /\ UNCHANGED toasts
  \/ \E r \in 1..Len(runs) : StreamBlock(r)
  \/ \E r \in 1..Len(runs) : Complete(r) /\ UNCHANGED toasts

RandomIdSpec == Init /\ [][RandomIdNext]_vars

\* ------------------------------------------------------------- SplitView
\* (src/unnamed/part_000)  SplitView shows the active task: `zoom` is its
\* zoom state in tenths; the blocks are drawn in the order of sortedBlocks,
\* each with the font size computed from its box, its text and the zoom.
\* Lengths are kept in tenths of a pixel, rounded down; a JavaScript number
\* is a record that is either NaN or holds such a value.

\* the blocks a task shown by SplitView can hold: among them boxes of equal
\* area, a box with bottom above top, a box with both sides inverted, an
\* empty text and a long one
NarrowBlock ==
  [text |-> "n", translatedText |-> "", box |-> <<30, 20, 80, 30>>,
   isBold |-> FALSE, type |-> "text"]
SmallBlock ==
  [text |-> "s",
   translatedText |-> "0123456789012345678901234567890123456789",
   box |-> <<5, 5, 6, 10>>, isBold |-> FALSE, type |-> "text"]
InvertedBlock ==
  [text |-> "i", translatedText |-> "I", box |-> <<20, 10, 10, 60>>,
   isBold |-> FALSE, type |-> "text"]
FlippedBlock ==
  [text |-> "f", translatedText |-> "Flipped box.", box |-> <<20, 60, 10, 10>>,
   isBold |-> FALSE, type |-> "heading"]

ViewBlockData ==
  {TextBlock, HeadingBlock, NarrowBlock, SmallBlock, InvertedBlock,
   FlippedBlock}

ViewBlockLists == UNION {[1..n -> ViewBlockData] : n \in 0..MaxBlocks}

\* (box[2] - box[0]) * (box[3] - box[1]), box = [top, left, bottom, right]
Area(b) == (b.box[3] - b.box[1]) * (b.box[4] - b.box[2])

\* the comparator the wrong way round
CompareAreaAscending(a, b) == Area(a) - Area(b)

\* the comparator of the sort: areaB - areaA
CompareArea(a, b) == Area(b) - Area(a)

\* Array.prototype.sort on a copy of the list: a stable sort; each block
\* goes in front of the first block the comparator puts it before
RECURSIVE InsertBlock(_, _)
InsertBlock(b, s) ==
  IF s = <<>> THEN <<b>>
  ELSE IF CompareArea(b, s[1]) < 0 THEN <<b>> \o s
  ELSE <<s[1]>> \o InsertBlock(b, Tail(s))

RECURSIVE SortedBlocks(_)
SortedBlocks(blocks) ==
  IF blocks = <<>> THEN <<>>
  ELSE InsertBlock(blocks[Len(blocks)],
                   SortedBlocks(SubSeq(blocks, 1, Len(blocks) - 1)))

\* JavaScript numbers
NaN == [nan |-> TRUE, v |-> 0]
Num(v) == [nan |-> FALSE, v |-> v]

MathMin(x, y) ==
  IF x.nan \/ y.nan THEN NaN ELSE IF x.v < y.v THEN x ELSE y

MathMax(x, y) ==
  IF x.nan \/ y.nan THEN NaN ELSE IF x.v > y.v THEN x ELSE y

\* the largest r in lo..hi with r * r <= x
RECURSIVE SqrtSearch(_, _, _)
SqrtSearch(x, lo, hi) ==
  IF lo = hi THEN lo
  ELSE LET mid == (lo + hi + 1) \div 2
       IN IF mid * mid <= x THEN SqrtSearch(x, mid, hi)
          ELSE SqrtSearch(x, lo, mid - 1)

\* Math.sqrt: NaN for a negative number
MathSqrt(x) ==
  IF x.nan \/ x.v < 0 THEN NaN ELSE Num(SqrtSearch(x.v, 0, 46340))

\* block.translatedText.length || 1
CharCount(b) == IF Len(b.translatedText) = 0 THEN 1 ELSE Len(b.translatedText)

\* the smart font sizing of one block at zoom z (tenths), in tenths of a
\* pixel
FontSize(b, z) ==
  LET height == b.box[3] - b.box[1]
      width == b.box[4] - b.box[2]
      boxWidthPx == (width * 595 * z) \div 100
      boxHeightPx == (height * 842 * z) \div 100
      area == boxWidthPx * boxHeightPx
      charCount == CharCount(b)
      density == MathSqrt(Num(((area \div 10) * 9) \div charCount))
      capped == IF charCount < 10
                THEN MathMin(density, Num((boxHeightPx * 85) \div 100))
                ELSE density
      minFs == Num(9 * z)
      maxFs == Num(48 * z)
      clamped == MathMax(minFs, MathMin(capped, maxFs))
  IN IF b.type = "heading" THEN MathMax(clamped, Num(14 * z)) ELSE clamped

\* a task completed with the given blocks, as the pipeline leaves it
ShownTask(id, blocks) ==
  [CompletePatch(NewTask(id)) EXCEPT
     !.translatedBlocks = [k \in 1..Len(blocks) |-> NewBlock(blocks[k], k - 1)]]

\* SplitView showing the one task of the list, completed with any blocks
ViewInit ==
  /\ defaultTargetLang = ZH_CN
  /\ toasts = <<>>
  /\ \E blocks \in ViewBlockLists : tasks = <<ShownTask(1, blocks)>>
  /\ rendered = Snapshot(tasks)
  /\ needsRender = FALSE
  /\ effectPending = FALSE
  /\ activeTaskId = 1
  /\ nextId = 2
  /\ runs = <<>>
  /\ progressLog =
       [id \in {1} |->
          <<0, FloorProgress, ReadProgress>>
            \o [k \in 1..Len(tasks[1].translatedBlocks) |->
                  CurrentProgress(k - 1, Len(tasks[1].translatedBlocks))]
            \o <<DoneProgress>>]
  /\ zoom = InitialZoom

\* setZoom(z => Math.max(0.5, z - 0.1))
ZoomOut ==
  /\ zoom' = IF zoom - 1 < MinZoom THEN MinZoom ELSE zoom - 1
  /\ UNCHANGED <<tasks, rendered, needsRender, effectPending, activeTaskId,
                 nextId, runs, progressLog, defaultTargetLang, toasts>>

\* setZoom(z => Math.min(3, z + 0.1))
ZoomIn ==
  /\ zoom' = IF zoom + 1 > MaxZoom THEN MaxZoom ELSE zoom + 1
  /\ UNCHANGED <<tasks, rendered, needsRender, effectPending, activeTaskId,
                 nextId, runs, progressLog, defaultTargetLang, toasts>>

ViewNext == ZoomOut \/ ZoomIn

ViewSpec == ViewInit /\ [][ViewNext]_vars

\* the task SplitView is given: tasks.find(t => t.id === activeTaskId)
ActiveBlocks ==
  IF HasTask(tasks, activeTaskId)
  THEN TaskOf(tasks, activeTaskId).translatedBlocks
  ELSE <<>>

\* ------------------------------------------------------------------ claims
IsTerminal(t) == t.status \in {"completed", "error"}

IndexOf(ts, id) == CHOOSE k \in 1..Len(ts) : ts[k].id = id

ProcessingCount(ts) ==
  Cardinality({k \in 1..Len(ts) : ts[k].status = "processing"})

\* C1: in every reachable state at most one task of the list has status
\* 'processing' (Analyzing or Streaming).
AtMostOneProcessing == ProcessingCount(tasks) <= 1

\* a task is processing while the run of a removed task is still going on
\* and the driver is about to be evaluated again
AtMostOneProcessingWitness ==
  /\ ProcessingCount(tasks) = 1
  /\ Len(runs) >= 2
  /\ effectPending

\* C2: at most one processQueue run is between its start and its final
\* write, and at most one analysis call is in flight, also after the task
\* being processed was removed and a later one was started.
InFlightCalls == Cardinality({r \in 1..Len(runs) : runs[r].pc = "analyze"})

AtMostOneRunActive == Len(runs) <= 1 /\ InFlightCalls <= 1

\* C3: the task the driver starts is the earliest pending task of the list;
\* so of two tasks in the list, the later one has left 'pending' only if
\* the earlier one is completed or failed.
StartsOldest ==
  \A id \in Ids(tasks) :
    ( /\ HasTask(tasks', id)
      /\ TaskOf(tasks, id).status = "pending"
      /\ TaskOf(tasks', id).status # "pending" )
    => /\ TaskOf(tasks', id).status = "processing"
       /\ \A k \in 1..(IndexOf(tasks, id) - 1) : tasks[k].status # "pending"

LaterWaitsForEarlier(ts) ==
  \A j, k \in 1..Len(ts) :
    (j < k /\ ts[k].status # "pending") => IsTerminal(ts[j])

StartsInInsertionOrder ==
  [][StartsOldest /\ LaterWaitsForEarlier(tasks')]_vars

\* the second of two tasks is being processed after the first has finished
StartsInInsertionOrderWitness ==
  /\ Len(tasks) >= 2
  /\ IsTerminal(tasks[1])
  /\ tasks[2].status = "processing"

\* C4: when the file read or the analysis call of a task of the list fails,
\* the task becomes 'error' with exactly one warning; and with a task failed,
\* the slot free and a task pending, the driver is due to run again and the
\* oldest pending task is started (unless it is removed first): the failure
\* does not stop the queue.
FailureStep(r) ==
  /\ r \in 1..Len(runs)
  /\ runs[r].pc \in {"read", "analyze"}
  /\ runs' = DropRun(runs, r)

FailureMarksTask ==
  \A r \in 1..Len(runs) :
    (FailureStep(r) /\ HasTask(tasks, runs[r].id))
    => /\ HasTask(tasks', runs[r].id)
       /\ TaskOf(tasks', runs[r].id).status = "error"
       /\ Len(TaskOf(tasks', runs[r].id).warnings) = 1

DriverDue ==
  (~Processing(tasks) /\ HasPending(tasks))
  => \/ needsRender
     \/ effectPending /\ rendered = Snapshot(tasks)

NextStartsAfterFailure ==
  \A id \in 1..MaxTasks :
    ( /\ \E k \in 1..Len(tasks) : tasks[k].status = "error"
      /\ ~Processing(tasks)
      /\ HasPending(tasks)
      /\ FindPending(tasks).id = id )
    ~> (~HasTask(tasks, id) \/ TaskOf(tasks, id).status = "processing")

FailureIsolated ==
  /\ [][FailureMarksTask /\ DriverDue']_vars
  /\ NextStartsAfterFailure

\* the first task has failed and the second, queued behind it, has started
FailureIsolatedWitness ==
  /\ Len(tasks) >= 2
  /\ tasks[1].status = "error"
  /\ Len(tasks[1].warnings) = 1
  /\ tasks[2].status = "processing"

\* C5: a task's status only moves forward along Queued, Analyzing,
\* Streaming, Completed; Failed is entered from Analyzing or Streaming only;
\* no step takes a task from Queued to Completed or Failed.
Phase(t) ==
  IF t.status = "pending" THEN "Queued"
  ELSE IF t.status = "completed" THEN "Completed"
  ELSE IF t.status = "error" THEN "Failed"
  ELSE IF t.detailedStatus \in {OcrStatus, ExtractStatus} THEN "Analyzing"
  ELSE "Streaming"

PhaseMoves ==
  {<<"Queued", "Analyzing">>, <<"Analyzing", "Streaming">>,
   <<"Streaming", "Completed">>, <<"Analyzing", "Failed">>,
   <<"Streaming", "Failed">>}

PhaseStep ==
  \A id \in Ids(tasks) :
    HasTask(tasks', id)
    => \/ Phase(TaskOf(tasks', id)) = Phase(TaskOf(tasks, id))
       \/ <<Phase(TaskOf(tasks, id)), Phase(TaskOf(tasks', id))>>
            \in PhaseMoves

StatusOrder == [][PhaseStep]_vars

\* one task has gone all the way to Completed with blocks streamed, another
\* has failed
StatusOrderWitness ==
  \E j, k \in 1..Len(tasks) :
    /\ tasks[j].status = "completed"
    /\ Len(tasks[j].translatedBlocks) > 0
    /\ tasks[k].status = "error"

\* C6: once a task is completed or failed, no step changes any of its
\* fields; it only ever leaves the list.
TerminalFrozen ==
  [][\A id \in Ids(tasks) :
       (IsTerminal(TaskOf(tasks, id)) /\ HasTask(tasks', id))
       => TaskOf(tasks', id) = TaskOf(tasks, id)]_vars

\* a finished task sits in the list while another task's run is writing
TerminalFrozenWitness ==
  \E j, k \in 1..Len(tasks) :
    /\ IsTerminal(tasks[j])
    /\ tasks[k].status = "processing"
    /\ tasks[k].progress > ReadProgress

\* C7: no step lowers the progress of a task of the list.
ProgressMonotone ==
  [][\A id \in Ids(tasks) :
       HasTask(tasks', id)
       => TaskOf(tasks', id).progress >= TaskOf(tasks, id).progress]_vars

\* a task has climbed through the streaming values to 100
ProgressMonotoneWitness ==
  \E id \in DOMAIN progressLog :
    /\ Len(progressLog[id]) >= 6
    /\ TaskOf(tasks, id).progress = DoneProgress

\* C8: when the adapter returns 3 blocks, the progress values the task takes
\* pass through 30, 50, 70, 90 in that order and then 100 at completion.
RECURSIVE IsSubsequence(_, _)
IsSubsequence(s, t) ==
  IF s = <<>> THEN TRUE
  ELSE IF t = <<>> THEN FALSE
  ELSE IF s[1] = t[1] THEN IsSubsequence(Tail(s), Tail(t))
  ELSE IsSubsequence(s, Tail(t))

ThreeBlockProgress ==
  \A id \in Ids(tasks) :
    (TaskOf(tasks, id).status = "completed"
       /\ Len(TaskOf(tasks, id).translatedBlocks) = 3)
    => /\ IsSubsequence(<<30, 50, 70, 90, 100>>, progressLog[id])
       /\ progressLog[id][Len(progressLog[id])] = 100

\* C9 as stated: whatever the number of blocks, a task's progress is 90 in
\* the state right before the write that completes it.
Completes(id) ==
  /\ HasTask(tasks', id)
  /\ TaskOf(tasks, id).status # "completed"
  /\ TaskOf(tasks', id).status = "completed"

NinetyBeforeCompletion ==
  [][\A id \in Ids(tasks) :
       Completes(id) => TaskOf(tasks, id).progress = 90]_vars

\* C9 as amended: right before the write that completes it, a task's
\* progress is 90 if the adapter returned at least one block, and 20 if it
\* returned an empty list.
CompletionStep(r) ==
  /\ r \in 1..Len(runs)
  /\ runs[r].pc = "complete"
  /\ runs' = DropRun(runs, r)

NinetyBeforeCompletionWithBlocks ==
  [][\A r \in 1..Len(runs) :
       (CompletionStep(r) /\ HasTask(tasks, runs[r].id))
       => /\ Completes(runs[r].id)
          /\ TaskOf(tasks', runs[r].id).progress = DoneProgress
          /\ Len(runs[r].blocks) >= 1
               => TaskOf(tasks, runs[r].id).progress = 90
          /\ Len(runs[r].blocks) = 0
               => TaskOf(tasks, runs[r].id).progress = ReadProgress]_vars

\* a run has appended the last of several blocks and is about to complete
NinetyBeforeCompletionWitness ==
  \E r \in 1..Len(runs) :
    /\ runs[r].pc = "complete"
    /\ Len(runs[r].blocks) >= 2
    /\ HasTask(tasks, runs[r].id)
    /\ TaskOf(tasks, runs[r].id).progress = 90

\* C10: when a task is completed, its translatedBlocks are the blocks the
\* adapter returned, once each and in the adapter's order, with text,
\* translatedText, box, isBold and type copied, and its progress is 100.
SameBlock(b, blockData) ==
  /\ b.text = blockData.text
  /\ b.translatedText = blockData.translatedText
  /\ b.box = blockData.box
  /\ b.isBold = blockData.isBold
  /\ b.type = blockData.type

BlocksDelivered ==
  [][\A r \in 1..Len(runs) :
       (CompletionStep(r) /\ HasTask(tasks, runs[r].id))
       => LET t == TaskOf(tasks', runs[r].id)
              bs == runs[r].blocks
          IN /\ t.status = "completed"
             /\ t.progress = DoneProgress
             /\ Len(t.translatedBlocks) = Len(bs)
             /\ \A k \in 1..Len(bs) :
                  SameBlock(t.translatedBlocks[k], bs[k])]_vars

\* a task is completed with several blocks
BlocksDeliveredWitness ==
  \E k \in 1..Len(tasks) :
    /\ tasks[k].status = "completed"
    /\ tasks[k].progress = DoneProgress
    /\ Len(tasks[k].translatedBlocks) >= 2

\* C11: when the analysis call of a task of the list rejects, or resolves
\* to a response without a block list, the task becomes 'error' with the
\* error message recorded as its one warning and with no translated block;
\* and no failed task of the list holds a translated block.
AnalysisFailureMessages ==
  {InvalidResponseMessage, "Invalid API Key", NetworkMessage}

AnalysisFailureStep(r) ==
  \/ AnalyzeInvalid(r)
  \/ \E m \in AnalyzeErrors : AnalyzeReject(r, m)

AnalysisFailureRecorded ==
  \A r \in 1..Len(runs) :
    (AnalysisFailureStep(r) /\ HasTask(tasks, runs[r].id))
    => LET t == TaskOf(tasks', runs[r].id)
       IN /\ t.status = "error"
          /\ Len(t.warnings) = 1
          /\ t.warnings[1] \in AnalysisFailureMessages
          /\ AnalyzeInvalid(r) => t.warnings[1] = InvalidResponseMessage
          /\ t.translatedBlocks = <<>>

FailedHasNoBlocks(ts) ==
  \A k \in 1..Len(ts) :
    ts[k].status = "error" => ts[k].translatedBlocks = <<>>

AnalysisFailureFails ==
  [][AnalysisFailureRecorded /\ FailedHasNoBlocks(tasks')]_vars

\* a task has failed on a response without a block list, after an earlier
\* task streamed its blocks
AnalysisFailureFailsWitness ==
  \E j, k \in 1..Len(tasks) :
    /\ tasks[k].status = "error"
    /\ tasks[k].warnings = <<InvalidResponseMessage>>
    /\ tasks[k].translatedBlocks = <<>>
    /\ Len(tasks[j].translatedBlocks) > 0

\* C12: removing the task that is being processed frees the slot: right
\* after the removal no task of the list is 'processing', the removed
\* task's run is still awaiting, and the driver is due to run on the new
\* list; it then starts the oldest pending task (unless that one is removed
\* first) without any step of the removed task's run being needed.
HasStaleRun == \E r \in 1..Len(runs) : ~HasTask(tasks, runs[r].id)

RemovalOfProcessing(id) ==
  /\ HasTask(tasks, id)
  /\ TaskOf(tasks, id).status = "processing"
  /\ RemoveFile(id)

RemovalFreesSlot ==
  \A id \in 1..MaxTasks :
    RemovalOfProcessing(id)
    => /\ ~HasTask(tasks', id)
       /\ ~Processing(tasks')
       /\ runs' = runs
       /\ \E r \in 1..Len(runs') : runs'[r].id = id
       /\ effectPending'
       /\ ~InSync'
       /\ rendered' = Snapshot(tasks')

OldestStartsAfterRemoval ==
  \A id \in 1..MaxTasks :
    ( /\ HasStaleRun
      /\ ~Processing(tasks)
      /\ HasPending(tasks)
      /\ FindPending(tasks).id = id )
    ~> (~HasTask(tasks, id) \/ TaskOf(tasks, id).status = "processing")

RemovalReleasesSlot ==
  /\ [][RemovalFreesSlot]_vars
  /\ OldestStartsAfterRemoval

\* the next task is being processed while the analysis call of the removed
\* one is still unresolved
RemovalReleasesSlotWitness ==
  /\ Len(tasks) >= 1
  /\ tasks[1].status = "processing"
  /\ \E r \in 1..Len(runs) :
       /\ ~HasTask(tasks, runs[r].id)
       /\ runs[r].id < tasks[1].id
       /\ runs[r].pc = "analyze"

\* C13: once a task has been removed from the list, every later write of
\* its run leaves the list as it is: the write changes no task that is
\* still there, and an id that has left the list never comes back.
StaleWriteIsNoOp ==
  \A r \in 1..Len(runs) :
    (RunWrite(r) /\ ~HasTask(tasks, runs[r].id)) => tasks' = tasks

RemovedStaysRemoved ==
  \A id \in 1..(nextId - 1) : ~HasTask(tasks, id) => ~HasTask(tasks', id)

StaleWritesDiscarded == [][StaleWriteIsNoOp /\ RemovedStaysRemoved]_vars

\* the run of a removed task has come to its last write while another
\* task sits in the list
StaleWritesDiscardedWitness ==
  /\ Len(tasks) >= 1
  /\ \E r \in 1..Len(runs) :
       /\ ~HasTask(tasks, runs[r].id)
       /\ runs[r].pc = "complete"
       /\ runs[r].i >= 2

\* C14: if every file read and analysis call settles and the driver is
\* run again after every change of the list, every task of the list is
\* eventually completed, failed or removed; none stays pending for ever.
\* (From any state on, each id is eventually not in the list or settled:
\* the same as "in the list leads to settled or removed".)
EveryTaskSettles ==
  \A id \in 1..MaxTasks :
    []<>(~HasTask(tasks, id) \/ IsTerminal(TaskOf(tasks, id)))

\* every task of a full list has settled, the last of them with blocks
EveryTaskSettlesWitness ==
  /\ Len(tasks) = MaxTasks
  /\ \A k \in 1..Len(tasks) : IsTerminal(tasks[k])
  /\ tasks[Len(tasks)].status = "completed"
  /\ Len(tasks[Len(tasks)].translatedBlocks) > 0
  /\ runs = <<>>

\* C15: SplitView draws the blocks of its task in descending order of box
\* area; blocks of equal area keep their order of the stored list; the
\* drawn list holds the stored blocks, each once; and the stored list is
\* left in the order the blocks were appended in.
IsDescending(s) == \A j, k \in 1..Len(s) : j < k => Area(s[j]) >= Area(s[k])

IsStable(s) ==
  \A j, k \in 1..Len(s) :
    (j < k /\ Area(s[j]) = Area(s[k])) => s[j].id < s[k].id

IsPermutation(s, t) ==
  /\ Len(s) = Len(t)
  /\ \A k \in 1..Len(t) :
       Cardinality({j \in 1..Len(s) : s[j] = t[k]}) = 1

StoredInOrder(s) == \A k \in 1..Len(s) : s[k].id = k - 1

RenderOrder ==
  /\ IsDescending(SortedBlocks(ActiveBlocks))
  /\ IsStable(SortedBlocks(ActiveBlocks))
  /\ IsPermutation(SortedBlocks(ActiveBlocks), ActiveBlocks)
  /\ StoredInOrder(ActiveBlocks)

\* the stored list has a larger block behind a smaller one and two blocks
\* of equal area, so the drawn order differs from the stored one
RenderOrderWitness ==
  /\ Len(ActiveBlocks) >= 3
  /\ \E j, k \in 1..Len(ActiveBlocks) :
       j < k /\ Area(ActiveBlocks[j]) < Area(ActiveBlocks[k])
  /\ \E j, k \in 1..Len(ActiveBlocks) :
       j < k /\ Area(ActiveBlocks[j]) = Area(ActiveBlocks[k])
  /\ SortedBlocks(ActiveBlocks) # ActiveBlocks
  /\ zoom # InitialZoom

\* C16: the font size SplitView computes for a block lies between 9 * zoom
\* and 48 * zoom, whatever the block (a box with its bottom above its top
\* or its right left of its left, an empty text, any type) and whatever
\* the zoom.
InRange(fs, z) == ~fs.nan /\ 9 * z <= fs.v /\ fs.v <= 48 * z

FontSizeInRange ==
  \A k \in 1..Len(ActiveBlocks) :
    InRange(FontSize(ActiveBlocks[k], zoom), zoom)

\* C17: each write of the pipeline changes, in the task it is keyed by,
\* only the fields it names, and leaves every other task of the list as
\* it is.
TaskFields ==
  {"id", "status", "detailedStatus", "progress", "warnings",
   "translatedBlocks", "targetLanguage"}

ChangedFields(t, u) == {f \in TaskFields : t[f] # u[f]}

WritesOnly(id, fields) ==
  /\ Len(tasks') = Len(tasks)
  /\ \A k \in 1..Len(tasks) :
       /\ DOMAIN tasks'[k] = DOMAIN tasks[k]
       /\ IF tasks[k].id = id
          THEN ChangedFields(tasks[k], tasks'[k]) \subseteq fields
          ELSE tasks'[k] = tasks[k]

WriteFrames ==
  /\ EffectStart
       => WritesOnly(FindPending(rendered).id,
                     {"status", "detailedStatus", "progress"})
  /\ \A r \in 1..Len(runs) :
       /\ ReadResolve(r)
            => WritesOnly(runs[r].id, {"progress", "detailedStatus"})
       /\ (\E blocks \in AdapterBlocks : AnalyzeResolve(r, blocks))
            => WritesOnly(runs[r].id, {"detailedStatus"})
       /\ StreamBlock(r)
            => WritesOnly(runs[r].id,
                          {"translatedBlocks", "progress", "detailedStatus"})
       /\ Complete(r)
            => WritesOnly(runs[r].id,
                          {"status", "detailedStatus", "progress"})
       /\ ( \/ \E m \in ReadErrors : ReadReject(r, m)
            \/ AnalyzeInvalid(r)
            \/ \E m \in AnalyzeErrors : AnalyzeReject(r, m) )
            => WritesOnly(runs[r].id, {"status", "detailedStatus", "warnings"})

WritesAreFramed == [][WriteFrames]_vars

\* a run is streaming into its task while another task of the list holds
\* blocks or a warning of its own
WritesAreFramedWitness ==
  \E r \in 1..Len(runs) : \E k \in 1..Len(tasks) :
    /\ HasTask(tasks, runs[r].id)
    /\ runs[r].pc = "stream"
    /\ runs[r].i >= 1
    /\ tasks[k].id # runs[r].id
    /\ (Len(tasks[k].translatedBlocks) > 0 \/ Len(tasks[k].warnings) > 0)

\* C18: the task list is in insertion order in every state: a submission
\* keeps the list as its front and puts the new tasks behind it in the
\* order given, and no step changes the relative order of two tasks that
\* stay in the list.  (Ids are numbered in the order of submission.)
InInsertionOrder(ts) == \A j, k \in 1..Len(ts) : j < k => ts[j].id < ts[k].id

SubmissionAppends ==
  \A n \in 1..MaxTasks :
    HandleFilesSelected(n)
    => /\ Len(tasks') = Len(tasks) + n
       /\ SubSeq(tasks', 1, Len(tasks)) = tasks
       /\ \A j \in 1..n : tasks'[Len(tasks) + j].id = nextId + j - 1

OrderKept ==
  \A a, b \in Ids(tasks) \cap Ids(tasks') :
    IndexOf(tasks, a) < IndexOf(tasks, b)
    => IndexOf(tasks', a) < IndexOf(tasks', b)

DistinctIds ==
  \A j, k \in 1..Len(tasks) : j # k => tasks[j].id # tasks[k].id

\* C20: while the N > 0 blocks of a task are streamed, each append adds
\* exactly one block behind those already there; with i the number of
\* blocks the task then holds, its progress is 30 + floor(60 * i / N) and
\* its detailed status reports block i of N.
AppendStep ==
  \A r \in 1..Len(runs) :
    (StreamBlock(r) /\ HasTask(tasks, runs[r].id))
    => LET before == TaskOf(tasks, runs[r].id)
           after == TaskOf(tasks', runs[r].id)
           N == Len(runs[r].blocks)
           i == Len(after.translatedBlocks)
       IN /\ N > 0
          /\ i = Len(before.translatedBlocks) + 1
          /\ i <= N
          /\ SubSeq(after.translatedBlocks, 1, i - 1) = before.translatedBlocks
          /\ after.progress = 30 + ((60 * i) \div N)
          /\ after.detailedStatus =
               <<"Translating block", i, N, after.progress>>

StreamingProgress == [][AppendStep]_vars

\* a task in the middle of a stream of three blocks, two of them appended
StreamingProgressWitness ==
  \E r \in 1..Len(runs) :
    /\ runs[r].pc = "stream"
    /\ Len(runs[r].blocks) = 3
    /\ HasTask(tasks, runs[r].id)
    /\ Len(TaskOf(tasks, runs[r].id).translatedBlocks) = 2
    /\ TaskOf(tasks, runs[r].id).progress = 70

\* C25: in every reachable state the selection activeTaskId is null or the
\* id of a task of the list.
ActiveTaskPresent == activeTaskId = Null \/ HasTask(tasks, activeTaskId)

\* C22: in every reachable state a task's warnings hold exactly one entry
\* if its status is 'error' and none otherwise.
WarningsMatchStatus ==
  \A k \in 1..Len(tasks) :
    Len(tasks[k].warnings) = IF tasks[k].status = "error" THEN 1 ELSE 0

\* the list holds a failed task with its warning and a completed task
\* without any
WarningsMatchStatusWitness ==
  \E j, k \in 1..Len(tasks) :
    /\ tasks[j].status = "error"
    /\ Len(tasks[j].warnings) = 1
    /\ tasks[k].status = "completed"
    /\ tasks[k].warnings = <<>>

\* C23: in every reachable state a task's progress is an integer of 0..100;
\* it is 0 exactly when the task is 'pending' and 100 exactly when it is
\* 'completed'; for a 'processing' or 'error' task it lies in 5..90.
ProgressMatchesStatus ==
  \A k \in 1..Len(tasks) :
    /\ tasks[k].progress \in 0..100
    /\ tasks[k].progress = 0 <=> tasks[k].status = "pending"
    /\ tasks[k].progress = 100 <=> tasks[k].status = "completed"
    /\ tasks[k].status \in {"processing", "error"}
         => tasks[k].progress \in 5..90

\* a task has failed at 20 while the other sits at 90 with its last block
\* appended
ProgressMatchesStatusWitness ==
  \E j, k \in 1..Len(tasks) :
    /\ tasks[j].status = "error"
    /\ tasks[j].progress = ReadProgress
    /\ tasks[k].status = "processing"
    /\ tasks[k].progress = 90

\* C24: a task carries the target language that was the default when it
\* was submitted: no step changes the targetLanguage of a task of the list,
\* changing the default leaves the list and the runs as they are, and the
\* analysis call of a task is given the label of the task's own language,
\* whatever the default is by then.
SubmittedWithDefault ==
  \A k \in 1..Len(tasks') :
    ~HasTask(tasks, tasks'[k].id)
    => tasks'[k].targetLanguage = defaultTargetLang

LanguageKept ==
  \A id \in Ids(tasks) :
    HasTask(tasks', id)
    => TaskOf(tasks', id).targetLanguage = TaskOf(tasks, id).targetLanguage

SelectorFrame ==
  defaultTargetLang' # defaultTargetLang => (tasks' = tasks /\ runs' = runs)

LabelOf(code) ==
  IF code = ZH_CN THEN "Chinese (Simplified)"
  ELSE IF code = EN THEN "English"
  ELSE "English"

CallUsesTaskLanguage ==
  \A r \in 1..Len(runs) :
    (ReadResolve(r) /\ HasTask(tasks, runs[r].id))
    => runs'[r].label = LabelOf(TaskOf(tasks, runs[r].id).targetLanguage)

IsOutcomeToast(toast) == toast.type \in {"success", "error"}

OutcomeToastShown(id) ==
  /\ Len(toasts') = Len(toasts) + 1
  /\ IsOutcomeToast(toasts'[Len(toasts')])
  /\ toasts'[Len(toasts')].message[2] = id

NoToastForRemoved ==
  \A r \in 1..Len(runs) :
    (RunWrite(r) /\ ~HasTask(tasks, runs[r].id))
    => ~OutcomeToastShown(runs[r].id)

StaleOutcomeIgnored == [][StaleWriteIsNoOp /\ NoToastForRemoved]_vars

====
